---- MODULE Spec2Model ----
(***************************************************************************)
(* Model of streamlit_app.py: a Streamlit script that loads a CSV of       *)
(* yearly population counts, normalises it, and on every run of the        *)
(* script (first display, form submit, multiselect change) validates the   *)
(* year range, filters the table and derives change metrics and            *)
(* percent-of-total series.                                                *)
(*                                                                         *)
(* Numbers.  A table value is a fixed-point number: the integer v stands   *)
(* for v / Scale.  A missing value (NaN) is a cell with nan = TRUE.        *)
(* A float result of a division is a record [k, n, d]: k = "num" is the    *)
(* reduced fraction n / d, k = "inf" / "ninf" / "nan" are the IEEE         *)
(* specials pandas produces.  Binary rounding error of floats is not       *)
(* modelled.                                                               *)
(***************************************************************************)
EXTENDS Integers, Sequences, FiniteSets, TLC

VARIABLES raw, sorter, df, phase, start_year, end_year, target, ms, out, ref

vars == <<raw, sorter, df, phase, start_year, end_year, target, ms, out, ref>>

(***************************************************************************)
(* Bounds of the model.                                                    *)
(***************************************************************************)
MaxRows == 2
MaxVal == 7
Scale == 2

\* value=max(min_year, 2017) of the "Start Year" slider
DefaultStartYear == 2017

Years == (DefaultStartYear - 1)..(DefaultStartYear + 1)

(***************************************************************************)
(* Generic helpers.                                                        *)
(***************************************************************************)
Abs(x) == IF x < 0 THEN -x ELSE x

Max2(a, b) == IF a >= b THEN a ELSE b

RECURSIVE GCD(_, _)
GCD(a, b) == IF b = 0 THEN a ELSE GCD(b, a % b)

Range(s) == {s[i] : i \in DOMAIN s}

Perms(n) == {p \in [1..n -> 1..n] : \A i, j \in 1..n : p[i] = p[j] => i = j}

\* the elements of sequence s that lie in set S, in the order of s
Restrict(s, S) == SelectSeq(s, LAMBDA x : x \in S)

(***************************************************************************)
(* Cells and floats.                                                       *)
(***************************************************************************)
NaN == [nan |-> TRUE, v |-> 0]

Num(x) == [nan |-> FALSE, v |-> x]

FNaN == [k |-> "nan", n |-> 0, d |-> 1]

FInf == [k |-> "inf", n |-> 0, d |-> 1]

FNegInf == [k |-> "ninf", n |-> 0, d |-> 1]

\* the fraction a / b, b # 0, in lowest terms with a positive denominator
Frac(a, b) ==
    LET g == GCD(Abs(a), Abs(b))
        sgn == IF b < 0 THEN -1 ELSE 1
    IN  [k |-> "num", n |-> sgn * (a \div g), d |-> Abs(b) \div g]

(***************************************************************************)
(* The input file.  A header name is its text without surrounding blanks   *)
(* (core) plus the number of leading and trailing blanks.  A raw cell is   *)
(* a token: a number, or text that is no number.                           *)
(***************************************************************************)
Name(s) == [lead |-> 0, core |-> s, trail |-> 0]

Padded(l, s, t) == [lead |-> l, core |-> s, trail |-> t]

RawNum(x) == [tok |-> "num", v |-> x]

RawJunk == [tok |-> "n/a", v |-> 0]

\* df.columns.str.contains(r"^Unnamed"): the name starts with "Unnamed"
UnnamedCores == {"Unnamed: 0", "Unnamed: 1"}

IsUnnamed(nm) == nm.lead = 0 /\ nm.core \in UnnamedCores

\* df.columns.str.strip()
Strip(nm) == nm.core

\* pd.to_numeric(errors="coerce") on one cell
ToNumeric(c) == IF c.tok = "num" THEN Num(c.v) ELSE NaN

(***************************************************************************)
(* Tables.  A raw table is the parsed CSV: a header and rows of raw cells  *)
(* aligned with it.  The Year column holds integers as written; every      *)
(* other cell holds a fixed-point value or a non-numeric token.            *)
(***************************************************************************)
Idx(n) == [i \in 1..n |-> i]

RawCells == {RawJunk} \cup {RawNum(x) : x \in 0..MaxVal}

LayoutFull == <<Name("Year"), Name("Total"), Name("A"), Name("B")>>

LayoutNoTotal == <<Name("Year"), Name("A"), Name("B")>>

LayoutArtifact == <<Name("Unnamed: 0"), Padded(1, "Year", 0), Padded(0, "Total", 1), Name("A")>>

LayoutPaddedArtifact == <<Padded(1, "Unnamed: 0", 0), Name("Year"), Name("A"), Name("Total")>>

LayoutTotalA == <<Name("Year"), Name("Total"), Name("A")>>

LayoutA == <<Name("Year"), Name("A")>>

Layouts == {LayoutFull, LayoutNoTotal, LayoutArtifact, LayoutPaddedArtifact}

\* positions of the header that are neither Year nor a serialised row index
CatIdx(h) == {j \in 1..Len(h) : h[j].core \notin ({"Year"} \cup UnnamedCores)}

\* the table with header h, years ys (one per row) and category cells c
MkTable(h, ys, c) ==
    [header |-> h,
     rows |-> [i \in 1..Len(ys) |->
                 [j \in 1..Len(h) |->
                    IF h[j].core = "Year" THEN RawNum(ys[i])
                    ELSE IF h[j].core \in UnnamedCores THEN RawNum((i - 1) * Scale)
                    ELSE c[i][j]]]]

\* a fixed sheet of values, by position, with a non-numeric token on one diagonal
SheetCell(i, j) == IF (i + j) % 5 = 0 THEN RawJunk ELSE RawNum((i + j) % (MaxVal + 1))

\* every layout, every sequence of 1..MaxRows years in any order, fixed cells
StructTables ==
    UNION {{MkTable(h, ys, [i \in 1..n |-> [j \in CatIdx(h) |-> SheetCell(i, j)]]) :
              ys \in [1..n -> Years]} : <<h, n>> \in Layouts \X (1..MaxRows)}

ValueShapes ==
    {<<LayoutA, <<DefaultStartYear + 1, DefaultStartYear>>>>,
     <<LayoutTotalA, <<DefaultStartYear>>>>,
     <<LayoutFull, <<DefaultStartYear + 1>>>>}

\* a few fixed shapes, every combination of cell contents
ValueTables ==
    UNION {{MkTable(sh[1], sh[2], c) :
              c \in [1..Len(sh[2]) -> [CatIdx(sh[1]) -> RawCells]]} : sh \in ValueShapes}

Tables == StructTables \cup ValueTables

(***************************************************************************)
(* Load & clean (lines 8-19).                                              *)
(***************************************************************************)
\* df.loc[:, ~df.columns.str.contains(r"^Unnamed")]: positions kept
KeptCols(h) == SelectSeq(Idx(Len(h)), LAMBDA j : ~IsUnnamed(h[j]))

\* lines 9-16: drop artifact columns, strip the names, coerce the non-Year columns
Clean(t) ==
    LET keep == KeptCols(t.header)
        cols == [k \in 1..Len(keep) |-> Strip(t.header[keep[k]])]
    IN  [columns |-> cols,
         rows |-> [i \in 1..Len(t.rows) |->
                     [k \in 1..Len(keep) |->
                        IF cols[k] = "Year" THEN Num(t.rows[i][keep[k]].v)
                        ELSE ToNumeric(t.rows[i][keep[k]])]]]

Col(d, name) == CHOOSE j \in 1..Len(d.columns) : d.columns[j] = name

HasCol(d, name) == name \in Range(d.columns)

YearAt(d, i) == d.rows[i][Col(d, "Year")].v

\* ArgsortOutcomes of a loader that does not sort
ArgsortUnsorted(d) == Perms(Len(d.rows))

\* the orders an argsort of the Year column can return: ascending by Year,
\* rows of equal Year in any order (sort_values uses an unstable sort)
ArgsortOutcomes(d) ==
    {p \in Perms(Len(d.rows)) :
        \A i \in 1..(Len(d.rows) - 1) : YearAt(d, p[i]) <= YearAt(d, p[i + 1])}

\* df.sort_values("Year").reset_index(drop=True), p the argsort of this build
SortValues(d, p) == [columns |-> d.columns, rows |-> [i \in 1..Len(d.rows) |-> d.rows[p[i]]]]

\* Load of a script that keeps the table between runs and assigns the
\* filtered view to it (df = df.loc[mask])
LoadOverwritten(t, p) ==
    IF phase = "start" THEN SortValues(Clean(t), p)
    ELSE [columns |-> df.columns,
          rows |-> SelectSeq(df.rows, LAMBDA r : r[Col(df, "Year")].v >= start_year
                                                 /\ r[Col(df, "Year")].v <= end_year)]

\* lines 9-19: the dataset of one run of the script
Load(t, p) == SortValues(Clean(t), p)

EmptyFrame == [columns |-> <<>>, rows |-> <<>>]

(***************************************************************************)
(* UI (lines 26-47).                                                       *)
(***************************************************************************)
min_year(d) == CHOOSE y \in {YearAt(d, i) : i \in 1..Len(d.rows)} :
                   \A i \in 1..Len(d.rows) : y <= YearAt(d, i)

max_year(d) == CHOOSE y \in {YearAt(d, i) : i \in 1..Len(d.rows)} :
                   \A i \in 1..Len(d.rows) : y >= YearAt(d, i)

\* value=max(min_year, 2017) of the "Start Year" slider
DefaultStart(d) == Max2(min_year(d), DefaultStartYear)

\* value=max_year of the "End Year" slider
DefaultEnd(d) == max_year(d)

\* st.slider raises when its default value lies outside [min_value, max_value]
SliderAccepts(lo, hi, v) == lo <= v /\ v <= hi

\* the values a slider over [min_value, max_value] with step 1 can return
SliderValues(d) == min_year(d)..max_year(d)

selectable_single(d) == SelectSeq(d.columns, LAMBDA c : c # "Year")

\* options[default_idx] of the "Population" selectbox
DefaultTarget(d) ==
    IF "Total" \in Range(selectable_single(d)) THEN "Total" ELSE selectable_single(d)[1]

(***************************************************************************)
(* Validate and filter (lines 49-57).                                      *)
(***************************************************************************)
\* RangeRejected with an off-by-one comparison
RangeRejectedLax(s, e) == s > e + 1

\* if start_year > end_year
RangeRejected(s, e) == s > e

\* FilterRows with the end year excluded
FilterRowsExclusive(d, s, e) ==
    [columns |-> d.columns,
     rows |-> SelectSeq(d.rows, LAMBDA r : r[Col(d, "Year")].v >= s /\ r[Col(d, "Year")].v < e)]

\* df.loc[(df["Year"] >= start_year) & (df["Year"] <= end_year)].reset_index(drop=True)
FilterRows(d, s, e) ==
    [columns |-> d.columns,
     rows |-> SelectSeq(d.rows, LAMBDA r : r[Col(d, "Year")].v >= s /\ r[Col(d, "Year")].v <= e)]

(***************************************************************************)
(* Tab 1 (lines 61-99).                                                    *)
(***************************************************************************)
\* df.loc[df["Year"] == y, target]: the target's cells of the rows of year y
Lookup(d, y, t) ==
    LET sel == SelectSeq(d.rows, LAMBDA r : r[Col(d, "Year")].v = y)
    IN  [i \in 1..Len(sel) |-> sel[i][Col(d, t)]]

\* int(x) of a non-missing cell: truncation toward zero
IntOf(c) == IF c.v >= 0 THEN c.v \div Scale ELSE -((-c.v) \div Scale)

\* the integer nearest to n / dd, dd # 0, ties to the even one (Python's round)
RoundHalfEven(n, dd) ==
    LET a == Abs(n)
        b == Abs(dd)
        q == a \div b
        r == a % b
        m == IF 2 * r < b THEN q
             ELSE IF 2 * r > b THEN q + 1
             ELSE IF q % 2 = 0 THEN q ELSE q + 1
    IN  IF (n < 0) # (dd < 0) THEN -m ELSE m

\* PercentChange without the factor 100: a ratio where a percentage is meant
PercentChangeRatio(initial, final) ==
    IF initial # 0 THEN RoundHalfEven((final - initial) * 100, initial) ELSE 0

\* round((final - initial) / initial * 100, 2) if initial != 0 else 0.0,
\* in hundredths of a percent
PercentChange(initial, final) ==
    IF initial # 0 THEN RoundHalfEven((final - initial) * 10000, initial) ELSE 0

NoMetrics == [some |-> FALSE, initial |-> 0, final |-> 0, pct |-> 0]

\* ChangeMetrics reading the first and last row of the filtered view instead
\* of looking the two years up
ChangeMetricsFirstLast(d, s, e, t) ==
    LET rows == SelectSeq(d.rows, LAMBDA r : r[Col(d, "Year")].v >= s /\ r[Col(d, "Year")].v <= e)
    IN  IF Len(rows) = 0
        THEN [status |-> "YearNotFound", m |-> NoMetrics]
        ELSE IF rows[1][Col(d, t)].nan \/ rows[Len(rows)][Col(d, t)].nan
        THEN [status |-> "ValueError", m |-> NoMetrics]
        ELSE LET initial == IntOf(rows[1][Col(d, t)])
                 final == IntOf(rows[Len(rows)][Col(d, t)])
             IN  [status |-> "ok",
                  m |-> [some |-> TRUE, initial |-> initial, final |-> final,
                         pct |-> PercentChange(initial, final)]]

\* lines 68-78.  status: "YearNotFound" (line 72), "ValueError" (int() of a
\* NaN raises at line 74 or 75), or "ok" with the two st.metric values
ChangeMetrics(d, s, e, t) ==
    LET initial_val == Lookup(d, s, t)
        final_val == Lookup(d, e, t)
    IN  IF Len(initial_val) = 0 \/ Len(final_val) = 0
        THEN [status |-> "YearNotFound", m |-> NoMetrics]
        ELSE IF initial_val[1].nan \/ final_val[1].nan
        THEN [status |-> "ValueError", m |-> NoMetrics]
        ELSE LET initial == IntOf(initial_val[1])
                 final == IntOf(final_val[1])
             IN  [status |-> "ok",
                  m |-> [some |-> TRUE, initial |-> initial, final |-> final,
                         pct |-> PercentChange(initial, final)]]

\* ax.plot(filtered_df["Year"], filtered_df[c]): one point per row
Series(fd, c) ==
    [i \in 1..Len(fd.rows) |-> <<fd.rows[i][Col(fd, "Year")].v, fd.rows[i][Col(fd, c)]>>]

\* PctOfTotal without the factor 100
PctOfTotalFraction(val, tot) ==
    IF val.nan \/ tot.nan THEN FNaN
    ELSE IF tot.v = 0
    THEN (IF val.v = 0 THEN FNaN ELSE IF val.v > 0 THEN FInf ELSE FNegInf)
    ELSE Frac(val.v, tot.v)

\* value / total * 100.0 on two cells, as pandas divides floats
PctOfTotal(val, tot) ==
    IF val.nan \/ tot.nan THEN FNaN
    ELSE IF tot.v = 0
    THEN (IF val.v = 0 THEN FNaN ELSE IF val.v > 0 THEN FInf ELSE FNegInf)
    ELSE Frac(100 * val.v, tot.v)

\* (filtered_df[c] / filtered_df["Total"]) * 100.0 against the Year column
PctSeries(fd, c) ==
    [i \in 1..Len(fd.rows) |->
        <<fd.rows[i][Col(fd, "Year")].v,
          PctOfTotal(fd.rows[i][Col(fd, c)], fd.rows[i][Col(fd, "Total")])>>]

(***************************************************************************)
(* Tab 2 (lines 101-135).                                                  *)
(***************************************************************************)
compare_options(d) == SelectSeq(d.columns, LAMBDA c : c \notin {"Year", "Total"})

default_sel(d, t) ==
    IF t \in Range(compare_options(d)) THEN {t}
    ELSE IF Len(compare_options(d)) > 0 THEN {compare_options(d)[1]} ELSE {}

NoWidget == [shown |-> FALSE, default |-> {}, value |-> {}]

\* st.multiselect: a widget that was on the page in the previous run with the
\* same default keeps the user's selection; otherwise it returns its default
Multiselect(w, dflt) == IF w.shown /\ w.default = dflt THEN w.value ELSE dflt

(***************************************************************************)
(* One run of the script below the form (lines 49-135).  What the page     *)
(* shows is recorded as: exc, the exception that ended the run ("none" if  *)
(* it ran to the end); msgs, the st.error / st.info / st.warning notices   *)
(* ("InvalidRange" line 51, "EmptyRange" line 57, "YearNotFound" line 72,  *)
(* "TotalInfo" line 99, "MissingTotal" line 133, "SelectOne" line 135);    *)
(* filtered, the rows of filtered_df; metrics, the two st.metric values;   *)
(* line, pct_single, cmp_abs, cmp_pct, the data of the four charts.        *)
(***************************************************************************)
None == [some |-> FALSE, val |-> <<>>]

Some(x) == [some |-> TRUE, val |-> x]

NoOutput ==
    [exc |-> "none", msgs |-> {}, filtered |-> None, metrics |-> NoMetrics,
     line |-> None, pct_single |-> None, cmp_abs |-> None, cmp_pct |-> None]

\* line 89: if "Total" in filtered_df.columns and target != "Total"
PctSingleOffered(fd, t) == HasCol(fd, "Total") /\ t # "Total"

\* line 121: if "Total" in filtered_df.columns
PctMultiOffered(fd) == HasCol(fd, "Total")

\* lines 61-99; a ValueError raised by int() ends the run inside the first column
Tab1(d, fd, s, e, t) ==
    LET cm == ChangeMetrics(d, s, e, t)
    IN  IF cm.status = "ValueError"
        THEN [exc |-> "ValueError", msgs |-> {}, metrics |-> NoMetrics,
              line |-> None, pct_single |-> None]
        ELSE [exc |-> "none",
              msgs |-> (IF cm.status = "YearNotFound" THEN {"YearNotFound"} ELSE {})
                       \cup (IF ~PctSingleOffered(fd, t) /\ t = "Total"
                             THEN {"TotalInfo"} ELSE {}),
              metrics |-> cm.m,
              line |-> Some(Series(fd, t)),
              pct_single |-> IF PctSingleOffered(fd, t) THEN Some(PctSeries(fd, t)) ELSE None]

\* Tab2Notices with the Total test made before the test for an empty selection
Tab2NoticesTotalFirst(fd, compare_targets) ==
    IF ~PctMultiOffered(fd) THEN {"MissingTotal"}
    ELSE IF compare_targets = {} THEN {"SelectOne"} ELSE {}

\* lines 110-135: the notice of the comparison tab, if any
Tab2Notices(fd, compare_targets) ==
    IF compare_targets = {} THEN {"SelectOne"}
    ELSE IF PctMultiOffered(fd) THEN {} ELSE {"MissingTotal"}

\* lines 101-135, w the multiselect as the previous run left it
Tab2(d, fd, t, w) ==
    LET dflt == default_sel(d, t)
        compare_targets == Multiselect(w, dflt)
        cats == Restrict(compare_options(d), compare_targets)
    IN  [ms |-> [shown |-> TRUE, default |-> dflt, value |-> compare_targets],
         msgs |-> Tab2Notices(fd, compare_targets),
         cmp_abs |-> IF compare_targets = {} THEN None
                     ELSE Some([k \in 1..Len(cats) |->
                                  [cat |-> cats[k], series |-> Series(fd, cats[k])]]),
         cmp_pct |-> IF compare_targets # {} /\ PctMultiOffered(fd)
                     THEN Some([k \in 1..Len(cats) |->
                                  [cat |-> cats[k], series |-> PctSeries(fd, cats[k])]])
                     ELSE None]

\* lines 49-135: the page and the multiselect after a run with the given
\* dataset, form values and previous multiselect
Script(d, s, e, t, w) ==
    IF RangeRejected(s, e)
    THEN [out |-> [NoOutput EXCEPT !.msgs = {"InvalidRange"}], ms |-> NoWidget]
    ELSE LET filtered_df == FilterRows(d, s, e)
         IN  IF Len(filtered_df.rows) = 0
             THEN [out |-> [NoOutput EXCEPT !.msgs = {"EmptyRange"},
                                            !.filtered = Some(filtered_df.rows)],
                   ms |-> NoWidget]
             ELSE LET t1 == Tab1(d, filtered_df, s, e, t)
                      t2 == Tab2(d, filtered_df, t, w)
                  IN  IF t1.exc # "none"
                      THEN [out |-> [NoOutput EXCEPT !.exc = t1.exc,
                                                     !.filtered = Some(filtered_df.rows)],
                            ms |-> NoWidget]
                      ELSE [out |-> [exc |-> "none",
                                     msgs |-> t1.msgs \cup t2.msgs,
                                     filtered |-> Some(filtered_df.rows),
                                     metrics |-> t1.metrics,
                                     line |-> t1.line,
                                     pct_single |-> t1.pct_single,
                                     cmp_abs |-> t2.cmp_abs,
                                     cmp_pct |-> t2.cmp_pct],
                            ms |-> t2.ms]

(***************************************************************************)
(* The application.  phase: "start" before the first run, "idle" once a    *)
(* run has put the form on the page, "dead" when the run ends at a slider  *)
(* that rejects its default value (no form, nothing to interact with).     *)
(* ref is a history variable: the dataset, the query and the page of the   *)
(* first run, and whether a later run has had another query.               *)
(***************************************************************************)
NoRef ==
    [set |-> FALSE, df |-> EmptyFrame, start_year |-> 0, end_year |-> 0,
     target |-> "", ms |-> NoWidget, out |-> NoOutput, others |-> FALSE]

\* ref after a run with form values s, e, t that left the multiselect as w
Noted(s, e, t, w) ==
    [ref EXCEPT !.others = @ \/ <<s, e, t, w>> # <<ref.start_year, ref.end_year, ref.target, ref.ms>>]

Init ==
    /\ raw \in Tables
    /\ sorter \in ArgsortOutcomes(Clean(raw))
    /\ df = EmptyFrame
    /\ phase = "start"
    /\ start_year = 0
    /\ end_year = 0
    /\ target = ""
    /\ ms = NoWidget
    /\ out = NoOutput
    /\ ref = NoRef

\* the first run of the script: every widget returns its default
FirstRun ==
    /\ phase = "start"
    /\ LET d == Load(raw, sorter)
       IN  /\ df' = d
           /\ IF SliderAccepts(min_year(d), max_year(d), DefaultStart(d))
              THEN LET r == Script(d, DefaultStart(d), DefaultEnd(d), DefaultTarget(d), NoWidget)
                   IN  /\ phase' = "idle"
                       /\ start_year' = DefaultStart(d)
                       /\ end_year' = DefaultEnd(d)
                       /\ target' = DefaultTarget(d)
                       /\ out' = r.out
                       /\ ms' = r.ms
              ELSE /\ phase' = "dead"
                   /\ out' = [NoOutput EXCEPT !.exc = "StreamlitAPIException"]
                   /\ UNCHANGED <<start_year, end_year, target, ms>>
           /\ ref' = [set |-> TRUE, df |-> d, start_year |-> start_year',
                      end_year |-> end_year', target |-> target', ms |-> ms', out |-> out',
                      others |-> FALSE]
    /\ UNCHANGED <<raw, sorter>>

\* the user sets the form's widgets and presses "Analyze": the script runs again
Submit(s, e, t) ==
    /\ phase = "idle"
    /\ LET d == Load(raw, sorter)
           r == Script(d, s, e, t, ms)
       IN  /\ df' = d
           /\ start_year' = s
           /\ end_year' = e
           /\ target' = t
           /\ out' = r.out
           /\ ms' = r.ms
           /\ ref' = Noted(s, e, t, r.ms)
    /\ UNCHANGED <<raw, sorter, phase>>

\* the user changes the multiselect: the script runs again with the form's
\* values of the last submit
SetCompare(S) ==
    /\ phase = "idle"
    /\ ms.shown
    /\ S # ms.value
    /\ LET d == Load(raw, sorter)
           r == Script(d, start_year, end_year, target, [ms EXCEPT !.value = S])
       IN  /\ df' = d
           /\ out' = r.out
           /\ ms' = r.ms
           /\ ref' = Noted(start_year, end_year, target, r.ms)
    /\ UNCHANGED <<raw, sorter, phase, start_year, end_year, target>>

Next ==
    \/ FirstRun
    \/ /\ phase = "idle"
       /\ \E s \in SliderValues(df), e \in SliderValues(df),
             t \in Range(selectable_single(df)) : Submit(s, e, t)
    \/ /\ phase = "idle"
       /\ \E S \in SUBSET Range(compare_options(df)) : SetCompare(S)

Spec == Init /\ [][Next]_vars

(***************************************************************************)
(* Vocabulary of the properties.                                           *)
(***************************************************************************)
Idle == phase = "idle"

ValidRange == Idle /\ start_year <= end_year

RowsOfYear(y) == {i \in 1..Len(df.rows) : YearAt(df, i) = y}

RowsInRange == {i \in 1..Len(df.rows) : start_year <= YearAt(df, i) /\ YearAt(df, i) <= end_year}

Present(y) == RowsOfYear(y) # {}

\* the target's cell in the first row of year y
TableValue(y) ==
    df.rows[CHOOSE i \in RowsOfYear(y) : \A k \in RowsOfYear(y) : i <= k][Col(df, target)]

NothingComputed ==
    /\ ~out.filtered.some
    /\ ~out.metrics.some
    /\ ~out.line.some
    /\ ~out.pct_single.some
    /\ ~out.cmp_abs.some
    /\ ~out.cmp_pct.some

\* p hundredths of a percent is (b - a) / a * 100 rounded to two decimals
IsRoundedPercent(p, a, b) == 2 * Abs(p * a - (b - a) * 10000) <= Abs(a)

\* n is x / Scale truncated toward zero, for a cell value x >= 0
IsTruncation(n, x) == n * Scale <= x /\ x < (n + 1) * Scale

\* C1: a query with start_year > end_year is rejected with the invalid-range
\* error and nothing else: no filtered view, no metrics, no series, no other
\* notice, no exception.
C1_InvalidRangeRejected ==
    (Idle /\ start_year > end_year) =>
        /\ out.msgs = {"InvalidRange"}
        /\ out.exc = "none"
        /\ NothingComputed
        /\ ~ms.shown

C1_Witness == Idle /\ start_year > end_year /\ "InvalidRange" \in out.msgs

\* C2: for start_year <= end_year the filtered view is exactly the rows of the
\* dataset with start_year <= Year <= end_year, in the dataset's order (the
\* block of the sorted dataset after the rows below start_year and up to the
\* last row not above end_year), and the empty-range error is reported if and
\* only if no row lies in the range.
C2_FilterInclusive ==
    ValidRange =>
        LET below == Cardinality({i \in 1..Len(df.rows) : YearAt(df, i) < start_year})
            upto == Cardinality({i \in 1..Len(df.rows) : YearAt(df, i) <= end_year})
        IN  /\ out.filtered.some
            /\ out.filtered.val = SubSeq(df.rows, below + 1, upto)
            /\ Len(out.filtered.val) = Cardinality(RowsInRange)
            /\ ("EmptyRange" \in out.msgs) <=> (RowsInRange = {})

C2_Witness ==
    /\ ValidRange
    /\ Len(out.filtered.val) >= 1
    /\ Len(out.filtered.val) < Len(df.rows)
    /\ \E i \in RowsInRange : YearAt(df, i) = end_year

\* C3 as stated: whenever both years have rows, the metrics are returned with
\* initial and final equal to the table's values (non-missing) and the percent
\* change rounded to two decimals, 0.0 when initial is 0.
C3_AsStated ==
    (ValidRange /\ Present(start_year) /\ Present(end_year)) =>
        LET a == TableValue(start_year)
            b == TableValue(end_year)
        IN  /\ out.metrics.some
            /\ ~a.nan /\ out.metrics.initial * Scale = a.v
            /\ ~b.nan /\ out.metrics.final * Scale = b.v
            /\ out.metrics.initial # 0 =>
                   IsRoundedPercent(out.metrics.pct, out.metrics.initial, out.metrics.final)
            /\ out.metrics.initial = 0 => out.metrics.pct = 0

\* C3 amended: whenever both years have rows and the target's values there
\* are not missing, initial and final are those values truncated to integers,
\* taken from the first row of each year, and the percent change is
\* (final - initial) / initial * 100 rounded to two decimals, 0.0 when initial
\* is 0; when one of the two values is missing the run ends in a ValueError
\* and no metrics are returned.
C3_TruncatedMetrics ==
    (ValidRange /\ Present(start_year) /\ Present(end_year)) =>
        LET a == TableValue(start_year)
            b == TableValue(end_year)
        IN  IF a.nan \/ b.nan
            THEN ~out.metrics.some /\ out.exc = "ValueError"
            ELSE /\ out.metrics.some
                 /\ out.exc = "none"
                 /\ IsTruncation(out.metrics.initial, a.v)
                 /\ IsTruncation(out.metrics.final, b.v)
                 /\ out.metrics.initial # 0 =>
                        IsRoundedPercent(out.metrics.pct, out.metrics.initial, out.metrics.final)
                 /\ out.metrics.initial = 0 => out.metrics.pct = 0

C3_Witness ==
    /\ ValidRange
    /\ start_year < end_year
    /\ out.metrics.some
    /\ out.metrics.initial # 0
    /\ out.metrics.pct % 100 # 0
    /\ TableValue(start_year).v % Scale # 0

\* C4 as stated: whenever start_year or end_year has no row, the failure
\* reported is the year-not-found error, not the empty-range error, and no
\* metrics are produced.
C4_AsStated ==
    (ValidRange /\ (~Present(start_year) \/ ~Present(end_year))) =>
        /\ "YearNotFound" \in out.msgs
        /\ "EmptyRange" \notin out.msgs
        /\ ~out.metrics.some

\* C4 amended: whenever start_year or end_year has no row, no metrics are
\* produced; if some row lies in the range the year-not-found error is
\* reported and the empty-range error is not; if no row lies in the range the
\* empty-range error is the only notice and the year lookup is never reached.
C4_YearNotFoundAfterFilter ==
    (ValidRange /\ (~Present(start_year) \/ ~Present(end_year))) =>
        /\ ~out.metrics.some
        /\ out.exc = "none"
        /\ IF RowsInRange # {}
           THEN "YearNotFound" \in out.msgs /\ "EmptyRange" \notin out.msgs
           ELSE out.msgs = {"EmptyRange"}

C4_Witness ==
    /\ ValidRange
    /\ Present(start_year)
    /\ ~Present(end_year)
    /\ "YearNotFound" \in out.msgs
    /\ out.line.some

\* the categories of a comparison chart
ChartCats(chart) == {chart.val[k].cat : k \in 1..Len(chart.val)}

\* the comparison chart has one series per selected category, each with the
\* filtered view's values
AbsoluteChartOk ==
    /\ out.cmp_abs.some
    /\ Len(out.cmp_abs.val) = Cardinality(ms.value)
    /\ ChartCats(out.cmp_abs) = ms.value
    /\ \A k \in 1..Len(out.cmp_abs.val) :
          /\ Len(out.cmp_abs.val[k].series) = Len(out.filtered.val)
          /\ \A i \in 1..Len(out.filtered.val) :
                out.cmp_abs.val[k].series[i] =
                    <<out.filtered.val[i][Col(df, "Year")].v,
                      out.filtered.val[i][Col(df, out.cmp_abs.val[k].cat)]>>

NoTotalQuery == ValidRange /\ RowsInRange # {} /\ ~HasCol(df, "Total")

\* C5 as stated: without a Total column every valid non-empty query produces
\* no percent series, signals the missing Total, and still produces the
\* absolute comparison series.
C5_AsStated ==
    NoTotalQuery =>
        /\ ~out.pct_single.some
        /\ ~out.cmp_pct.some
        /\ "MissingTotal" \in out.msgs
        /\ AbsoluteChartOk

\* C5 amended: without a Total column no valid non-empty query produces a
\* percent series.  If the run reaches the comparison tab with a non-empty
\* selection, the missing Total is signalled and the absolute comparison
\* series of the selected categories are produced; with an empty selection
\* only the select-at-least-one notice appears, neither the missing-Total
\* warning nor a comparison chart; and a run that ended in the ValueError of
\* the change metrics shows nothing of the comparison tab.
C5_NoTotal ==
    NoTotalQuery =>
        /\ ~out.pct_single.some
        /\ ~out.cmp_pct.some
        /\ "TotalInfo" \notin out.msgs
        /\ IF out.exc # "none"
           THEN ~ms.shown /\ ~out.cmp_abs.some /\ out.msgs = {}
           ELSE /\ ms.shown
                /\ IF ms.value # {}
                   THEN "MissingTotal" \in out.msgs /\ AbsoluteChartOk
                   ELSE /\ "SelectOne" \in out.msgs
                        /\ "MissingTotal" \notin out.msgs
                        /\ ~out.cmp_abs.some

C5_Witness ==
    /\ NoTotalQuery
    /\ "MissingTotal" \in out.msgs
    /\ Cardinality(ms.value) = 2
    /\ Len(out.filtered.val) = 2

\* C6 as stated: a missing target value at start_year or end_year never
\* raises: the run completes and the charts are drawn.
C6_MissingNeverRaises ==
    (ValidRange /\ Present(start_year) /\ Present(end_year)
        /\ (TableValue(start_year).nan \/ TableValue(end_year).nan)) =>
        /\ out.exc = "none"
        /\ out.line.some

\* one entry of a percent-of-total series against its row
PctEntryOk(row, cat, entry) ==
    LET val == row[Col(df, cat)]
        tot == row[Col(df, "Total")]
    IN  /\ entry[1] = row[Col(df, "Year")].v
        /\ (~tot.nan /\ tot.v # 0) =>
              IF val.nan THEN entry[2].k = "nan"
              ELSE /\ entry[2].k = "num"
                   /\ entry[2].d > 0
                   /\ entry[2].n * tot.v = 100 * val.v * entry[2].d
                   /\ (0 <= val.v /\ val.v <= tot.v) =>
                          (0 <= entry[2].n /\ entry[2].n <= 100 * entry[2].d)

PctSeriesOk(cat, ser) ==
    /\ Len(ser) = Len(out.filtered.val)
    /\ \A i \in 1..Len(ser) : PctEntryOk(out.filtered.val[i], cat, ser[i])

\* C7: a percent-of-total series, of the target and of every selected
\* comparison category, has exactly one entry per row of the filtered view,
\* for that row's Year; where the row's Total is neither missing nor zero the
\* entry equals value / Total * 100, and it lies in [0, 100] when
\* 0 <= value <= Total.  The series exist whenever a run with a Total column
\* reaches their charts.
C7_PercentOfTotal ==
    Idle =>
        /\ out.pct_single.some => PctSeriesOk(target, out.pct_single.val)
        /\ out.cmp_pct.some =>
              /\ ChartCats(out.cmp_pct) = ms.value
              /\ \A k \in 1..Len(out.cmp_pct.val) :
                    PctSeriesOk(out.cmp_pct.val[k].cat, out.cmp_pct.val[k].series)
        /\ (ValidRange /\ RowsInRange # {} /\ out.exc = "none" /\ HasCol(df, "Total")) =>
              /\ out.pct_single.some <=> target # "Total"
              /\ out.cmp_pct.some <=> ms.value # {}

C7_Witness ==
    /\ Idle
    /\ out.pct_single.some
    /\ out.cmp_pct.some
    /\ Len(out.pct_single.val) >= 1
    /\ \E i \in 1..Len(out.pct_single.val) :
          /\ out.pct_single.val[i][2].k = "num"
          /\ out.pct_single.val[i][2].d > 1
          /\ out.pct_single.val[i][2].n < 100 * out.pct_single.val[i][2].d

SortedByYear == \A i, j \in 1..Len(df.rows) : i < j => YearAt(df, i) <= YearAt(df, j)

\* C8 as stated: after normalisation the rows are sorted ascending by Year
\* and no two rows have the same Year.
C8_AsStated ==
    (phase # "start") =>
        /\ SortedByYear
        /\ \A i, j \in 1..Len(df.rows) : i # j => YearAt(df, i) # YearAt(df, j)

\* C8 amended: after normalisation, and in every later state, the rows are
\* sorted ascending by Year and are the input's rows reordered: none is added
\* or dropped, so two rows have the same Year exactly when the input had two
\* rows of that Year.
C8_SortedPermutation ==
    (phase # "start") =>
        /\ SortedByYear
        /\ df.columns = Clean(raw).columns
        /\ \E p \in Perms(Len(Clean(raw).rows)) :
              df.rows = [i \in 1..Len(Clean(raw).rows) |-> Clean(raw).rows[p[i]]]

C8_Witness ==
    /\ Idle
    /\ Len(df.rows) >= 2
    /\ YearAt(Clean(raw), 1) > YearAt(Clean(raw), 2)
    /\ YearAt(df, 1) < YearAt(df, 2)

C10_DefaultsInRange ==
    (phase # "start") =>
        /\ SliderAccepts(min_year(df), max_year(df), DefaultStart(df))
        /\ SliderAccepts(min_year(df), max_year(df), DefaultEnd(df))
        /\ DefaultStart(df) <= DefaultEnd(df)
        /\ ref.out.exc # "StreamlitAPIException"
        /\ "InvalidRange" \notin ref.out.msgs

====
